---------------------------- MODULE Spec2Model ----------------------------
(***************************************************************************)
(* A model of scripts/resize-logo.py: the two transforms                   *)
(* (resize_maintaining_aspect, resize_to_square) and the batch main() that *)
(* derives nine output files from logo.png.                                *)
(*                                                                         *)
(* Python computes the fitted dimensions in IEEE-754 double precision      *)
(* (img.width / img.height, height * aspect_ratio, size / aspect_ratio)    *)
(* and truncates with int().  The doubles are modelled bit for bit: a      *)
(* double is [m, e] with a 53-bit significand m held in four 18-bit limbs  *)
(* (least significant first) and the value m * 2^e.                        *)
(***************************************************************************)
EXTENDS Integers, Sequences, FiniteSets, TLC

(***************************************************************************)
(* Bounds of the model.                                                    *)
(***************************************************************************)
\* source images of the transform specification are 1..MaxDim wide and high
MaxDim == 10
\* the transform specification tries every target 1..MaxSize besides main's
MaxSize == 8
\* logo.png of the batch specification is 1..MaxLogoDim wide and high, or six
\* times that (a logo so thin that a fitted side truncates to 0)
MaxLogoDim == 5
\* the batch is run at most MaxRuns times in sequence
MaxRuns == 2

(***************************************************************************)
(* State.                                                                  *)
(***************************************************************************)
VARIABLES
    source,     \* logo.png on disk: an image, or Missing
    publicDir,  \* whether the directory public/ exists
    files,      \* the nine output files' contents
    before,     \* files as they were when the current run started
    run,        \* the number of the current run, from 1
    outcomes,   \* how each earlier run ended: "done" or "fault"
    pc,         \* where main() stands
    logo,       \* main's local logo (None before it is loaded)
    derived,    \* the derived images created this run: <<[fn, arg, img]>>
    locals,     \* main's locals naming derived images (0: unbound)
    log,        \* the saves of this run, in order: <<[obj, path]>>
    fnImg,      \* transform specification: the image given
    fnName,     \* ... the transform called ("idle" before a call)
    fnArg,      \* ... its height or size argument
    fnRet       \* ... what it returned

vars == <<source, publicDir, files, before, run, outcomes, pc, logo, derived,
          locals, log, fnImg, fnName, fnArg, fnRet>>

mainVars == <<source, publicDir, files, before, run, outcomes, pc, logo, derived,
              locals, log>>

fnVars == <<fnImg, fnName, fnArg, fnRet>>

(***************************************************************************)
(* Double precision arithmetic (Python float).                             *)
(***************************************************************************)
\* bits of an IEEE-754 binary64 significand
MantBits == 53

Base == 2^18

\* the limbs of an int 0 <= n < 2^31
BigOf(n) == <<n % Base, n \div Base, 0, 0>>

\* 2^52 and 2^53: the range [MantLo, MantHi) of a normalised significand
MantLo == <<0, 0, 2^(MantBits - 1 - 36), 0>>

MantHi == <<0, 0, 2^(MantBits - 36), 0>>

BigGeq(a, b) ==
    IF a[4] # b[4] THEN a[4] > b[4]
    ELSE IF a[3] # b[3] THEN a[3] > b[3]
    ELSE IF a[2] # b[2] THEN a[2] > b[2]
    ELSE a[1] >= b[1]

\* a - b for a >= b
BigSub(a, b) ==
    LET d1 == a[1] - b[1]
        c1 == IF d1 < 0 THEN 1 ELSE 0
        d2 == a[2] - b[2] - c1
        c2 == IF d2 < 0 THEN 1 ELSE 0
        d3 == a[3] - b[3] - c2
        c3 == IF d3 < 0 THEN 1 ELSE 0
        d4 == a[4] - b[4] - c3
    IN  <<d1 + c1 * Base, d2 + c2 * Base, d3 + c3 * Base, d4>>

\* a * s + c for 0 <= s < 2^12 and 0 <= c < Base
BigMulAdd(a, s, c) ==
    LET t1 == a[1] * s + c
        t2 == a[2] * s + t1 \div Base
        t3 == a[3] * s + t2 \div Base
        t4 == a[4] * s + t3 \div Base
    IN  <<t1 % Base, t2 % Base, t3 % Base, t4 % Base>>

BigOdd(a) == a[1] % 2 = 1

\* the value of a, for a < 2^31
BigToInt(a) == a[1] + a[2] * Base

\* the number of bits of an int 0 < n < 2^30
BitLen(n) == CHOOSE l \in 1..30 : 2^(l - 1) <= n /\ n < 2^l

\* the number of bits of a > 0
BigBitLen(a) ==
    IF a[4] # 0 THEN 54 + BitLen(a[4])
    ELSE IF a[3] # 0 THEN 36 + BitLen(a[3])
    ELSE IF a[2] # 0 THEN 18 + BitLen(a[2])
    ELSE BitLen(a[1])

\* a * 2^k, for a result below 2^72
Shl(a, k) ==
    LET b == k % 18
        j == k \div 18
        t == BigMulAdd(BigMulAdd(a, 2^(b \div 2), 0), 2^(b - b \div 2), 0)
        Limb(i) == IF i - j >= 1 THEN t[i - j] ELSE 0
    IN  <<Limb(1), Limb(2), Limb(3), Limb(4)>>

\* a \div 2^k
Shr(a, k) ==
    LET b == k % 18
        j == k \div 18
        U(i) == IF i + j <= 4 THEN a[i + j] ELSE 0
        Limb(i) == U(i) \div 2^b + (U(i + 1) % 2^b) * 2^(18 - b)
    IN  <<Limb(1), Limb(2), Limb(3), Limb(4)>>

\* the element of a one-element set: Only({F(v) : v \in {x}}) is F(x) with x
\* evaluated once, before F is
Only(S) == CHOOSE v \in S : TRUE

\* round to nearest, ties to even: a is the significand cut off, guard the
\* first bit dropped, sticky whether any later dropped bit was set
RoundEven(a, e, guard, sticky) ==
    LET up == guard /\ (sticky \/ BigOdd(a))
        r  == IF up THEN BigMulAdd(a, 1, 1) ELSE a
    IN  IF r = MantHi THEN [m |-> MantLo, e |-> e + 1] ELSE [m |-> r, e |-> e]

\* p * 2^e with p >= 2^52 rounded to a double
RoundShift(p, e) ==
    LET k    == BigBitLen(p) - MantBits
        hi   == Shr(p, k)
        lo   == BigSub(p, Shl(hi, k))
        half == Shl(BigOf(1), k - 1)
    IN  IF k = 0 THEN [m |-> p, e |-> e]
        ELSE RoundEven(hi, e + k, BigGeq(lo, half), lo # half)

\* float(n) for an int 0 < n < 2^30 (exact)
FloatOfInt(n) ==
    [m |-> Shl(BigOf(n), MantBits - BitLen(n)), e |-> BitLen(n) - MantBits]

\* one more quotient bit: st is <<quotient so far, remainder>>, d the divisor
DivStep(st, d) ==
    LET r2  == BigMulAdd(st[2], 2, 0)
        bit == BigGeq(r2, d)
    IN  <<BigMulAdd(st[1], 2, IF bit THEN 1 ELSE 0),
          IF bit THEN BigSub(r2, d) ELSE r2>>

\* 4 * n more quotient bits
RECURSIVE DivBits(_, _, _)
DivBits(st, d, n) ==
    IF n = 0 THEN st
    ELSE Only({ DivBits(DivStep(DivStep(v, d), d), d, n - 1)
                : v \in {DivStep(DivStep(st, d), d)} })

\* x / y of two doubles: the leading quotient bit, 52 more, then the rounding
FloatDiv(x, y) ==
    Only({ LET ge == BigGeq(xv.m, yv.m)
               r0 == BigSub(IF ge THEN xv.m ELSE BigMulAdd(xv.m, 2, 0), yv.m)
               st == DivBits(<<BigOf(1), r0>>, yv.m, (MantBits - 1) \div 4)
               r2 == BigMulAdd(st[2], 2, 0)
           IN  RoundEven(st[1], xv.e - yv.e - (IF ge THEN MantBits - 1 ELSE MantBits),
                         BigGeq(r2, yv.m), r2 # yv.m)
           : xv \in {x}, yv \in {y} })

\* n * x of an int 0 < n < 2^12 and a double
FloatMulInt(n, x) == Only({ RoundShift(BigMulAdd(xv.m, n, 0), xv.e) : xv \in {x} })

\* a slip: round(x), halves up, where the code has int(x)
RoundHalfUp(x) == Only({ (BigToInt(Shr(xv.m, 0 - xv.e - 1)) + 1) \div 2 : xv \in {x} })

\* int(x): x truncated towards zero, for 0 < x < 2^30
Trunc(x) == Only({ BigToInt(Shr(xv.m, 0 - xv.e)) : xv \in {x} })

(***************************************************************************)
(* Images (PIL.Image).  Pixel data is kept symbolically: a solid colour,   *)
(* one image pasted on another, or a Lanczos resampling of an image.       *)
(***************************************************************************)
\* the RGBA colour of the canvas of resize_to_square
Transparent == <<0, 0, 0, 0>>

Solid(color) == [kind |-> "solid", color |-> color]

NewImage(mode, width, height, color) ==
    [width |-> width, height |-> height, mode |-> mode, px |-> Solid(color)]

\* what a call that raises returns
Fault(what) == [fault |-> what]

IsFault(r) == "fault" \in DOMAIN r

\* Image.resize(size, LANCZOS): raises ValueError unless both sides are >= 1;
\* the filter's weights sum to one, so a solid image stays solid
Resize(img, width, height) ==
    IF width < 1 \/ height < 1
    THEN Fault("ValueError")
    ELSE [width |-> width, height |-> height, mode |-> img.mode,
          px |-> IF img.px.kind = "solid" THEN img.px
                 ELSE [kind |-> "lanczos", of |-> img]]

\* Image.paste(im, (x, y), mask): im laid over canvas at (x, y); with a mask
\* each pixel of im is blended in by the mask's alpha
Paste(canvas, im, x, y, masked) ==
    [canvas EXCEPT !.px = [kind |-> "paste", under |-> canvas.px, over |-> im.px,
                           x |-> x, y |-> y, w |-> im.width, h |-> im.height,
                           masked |-> masked]]

\* the pixel (i, j) of an image, 0 <= i < width, 0 <= j < height, whose pixel
\* data is solid or a paste of solids
PixelAt(img, i, j) ==
    LET p == img.px IN
    IF p.kind = "solid" THEN p.color
    ELSE IF /\ p.x <= i /\ i < p.x + p.w
            /\ p.y <= j /\ j < p.y + p.h
            /\ (~p.masked \/ p.over.color[4] = 255)
         THEN p.over.color
         ELSE p.under.color

(***************************************************************************)
(* The two transforms.                                                     *)
(***************************************************************************)
\* img.width / img.height
AspectRatio(img) == FloatDiv(FloatOfInt(img.width), FloatOfInt(img.height))

\* new_width of resize_maintaining_aspect
AspectWidth(img, height) == Trunc(FloatMulInt(height, AspectRatio(img)))

\* a slip: the size given to resize as (height, width)
ResizeSwapped(img, height) ==
    Only({ Resize(img, height, new_width) : new_width \in {AspectWidth(img, height)} })

ResizeMaintainingAspect(img, height) ==
    Only({ Resize(img, new_width, height) : new_width \in {AspectWidth(img, height)} })

\* a slip: the test aspect_ratio < 1 where the code has aspect_ratio > 1
WidthFittedInverted(img) == Only({ a.e < 1 - MantBits : a \in {AspectRatio(img)} })

\* whether resize_to_square fits the width (aspect_ratio > 1): a double is
\* above 1.0 when it is at least 1.0 and is not 1.0
WidthFitted(img) ==
    Only({ (a.e > 1 - MantBits) \/ (a.e = 1 - MantBits /\ a.m # MantLo)
           : a \in {AspectRatio(img)} })

\* <<new_width, new_height>> of resize_to_square
FittedSize(img, size) ==
    Only({ IF WidthFitted(img)
           THEN <<size, Trunc(FloatDiv(FloatOfInt(size), a))>>
           ELSE <<Trunc(FloatMulInt(size, a)), size>>
           : a \in {AspectRatio(img)} })

\* a slip: the resized image pasted at the corner, not centred
PasteCorner(size, new_width, new_height) == <<0, 0>>

\* <<x, y>> of resize_to_square
PasteOffset(size, new_width, new_height) ==
    <<(size - new_width) \div 2, (size - new_height) \div 2>>

ResizeToSquare(img, size) ==
    Only({ LET resized == Resize(img, fit[1], fit[2])
               square  == NewImage("RGBA", size, size, Transparent)
               at      == PasteOffset(size, fit[1], fit[2])
           IN  IF IsFault(resized) THEN resized
               ELSE Paste(square, resized, at[1], at[2], resized.mode = "RGBA")
           : fit \in {FittedSize(img, size)} })

Transform(fn, img, arg) ==
    IF fn = "resize_maintaining_aspect"
    THEN ResizeMaintainingAspect(img, arg)
    ELSE ResizeToSquare(img, arg)

(***************************************************************************)
(* Files.  Image.save writes a PNG (one frame: the image) or, with         *)
(* format="ICO", an icon holding a frame for each of the plugin's sizes    *)
(* that fits in the image.                                                 *)
(***************************************************************************)
SidebarHeight == 24
LoginHeight == 80
Favicon16 == 16
Favicon32 == 32
AppleTouch == 180

MainSizes == {SidebarHeight, LoginHeight, Favicon16, Favicon32, AppleTouch}

\* the nine output files, in the order main saves them
OutputOrder ==
    <<"public/logo-24.png", "public/logo-80.png", "public/favicon-16.png",
      "public/favicon-32.png", "public/apple-touch-icon.png", "public/favicon.ico",
      "src/app/favicon.ico", "src/app/icon.png", "src/app/apple-icon.png">>

Paths == {OutputOrder[i] : i \in 1..Len(OutputOrder)}

IcoSizes == <<16, 24, 32, 48, 64, 128, 256>>

EncodePNG(img) == [format |-> "PNG", frames |-> <<img>>]

EncodeICO(img) ==
    LET Fits(s) == s <= img.width /\ s <= img.height
        fit == SelectSeq(IcoSizes, Fits)
    IN  [format |-> "ICO",
         frames |-> [k \in 1..Len(fit) |->
                        IF img.width = fit[k] /\ img.height = fit[k] THEN img
                        ELSE Resize(img, fit[k], fit[k])]]

\* a slip: an encoder that stamps the file with the run that wrote it
EncodeStamped(img, format) ==
    [format |-> format, frames |-> <<img>>, stamp |-> run]

Encode(img, format) == IF format = "ICO" THEN EncodeICO(img) ELSE EncodePNG(img)

\* a file that is not there, and one left by an earlier version of the script
Absent == [format |-> "absent", frames |-> <<>>]

Stale == [format |-> "stale", frames |-> <<>>]

\* Image.open(...).convert("RGBA"): an RGB pixel gets alpha 255
ConvertRGBA(img) ==
    [img EXCEPT !.mode = "RGBA",
                !.px = IF img.mode = "RGBA" THEN img.px
                       ELSE Solid(img.px.color \o <<255>>)]

Missing == [missing |-> TRUE]

None == [none |-> TRUE]

LocalNames == {"sidebar", "login", "favicon_16", "favicon_32", "apple_touch",
               "favicon_32_for_ico"}

\* the logos tried: opaque RGB, opaque RGBA and fully transparent RGBA
LogoFiles(dims) ==
    { NewImage(c[1], w, h, c[2]) :
        w \in dims, h \in dims,
        c \in {<<"RGB", <<9, 9, 9>>>>, <<"RGBA", <<9, 9, 9, 255>>>>,
               <<"RGBA", <<9, 9, 9, 0>>>>} }

MainIdle ==
    /\ source = Missing
    /\ publicDir = FALSE
    /\ files = [p \in Paths |-> Absent]
    /\ before = files
    /\ run = 1
    /\ outcomes = <<>>
    /\ pc = "load"
    /\ logo = None
    /\ derived = <<>>
    /\ locals = [n \in LocalNames |-> 0]
    /\ log = <<>>

FnIdle ==
    /\ fnImg = None
    /\ fnName = "idle"
    /\ fnArg = 0
    /\ fnRet = None

(***************************************************************************)
(* main(): one action for each statement that loads, transforms or saves.  *)
(***************************************************************************)
Init ==
    /\ source \in {Missing} \cup LogoFiles((1..MaxLogoDim) \cup {6 * MaxLogoDim})
    /\ \E old \in {Absent, Stale} :
          /\ publicDir = (old = Stale)
          /\ files = [p \in Paths |-> old]
    /\ before = files
    /\ run = 1
    /\ outcomes = <<>>
    /\ pc = "load"
    /\ logo = None
    /\ derived = <<>>
    /\ locals = [n \in LocalNames |-> 0]
    /\ log = <<>>
    /\ FnIdle

\* a slip: a missing logo.png replaced by a blank placeholder
LoadPlaceholder ==
    /\ pc = "load"
    /\ publicDir' = TRUE
    /\ logo' = IF source = Missing THEN NewImage("RGBA", 1, 1, Transparent)
               ELSE ConvertRGBA(source)
    /\ pc' = "sidebar"
    /\ UNCHANGED <<source, files, before, run, outcomes, derived, locals, log>>
    /\ UNCHANGED fnVars

\* lines 46-52: public.mkdir(exist_ok=True), then Image.open raises when
\* logo.png is missing
Load ==
    /\ pc = "load"
    /\ publicDir' = TRUE
    /\ \/ /\ source = Missing
          /\ pc' = "fault"
          /\ UNCHANGED logo
       \/ /\ source # Missing
          /\ logo' = ConvertRGBA(source)
          /\ pc' = "sidebar"
    /\ UNCHANGED <<source, files, before, run, outcomes, derived, locals, log>>
    /\ UNCHANGED fnVars

\* a slip: a failed save that removes what the run wrote before it
SaveImageRollback(obj, img, path, format, next) ==
    \/ /\ files' = [files EXCEPT ![path] = Encode(img, format)]
       /\ log' = Append(log, [obj |-> obj, path |-> path])
       /\ pc' = next
    \/ /\ pc' = "fault"
       /\ files' = before
       /\ UNCHANGED log

\* img.save(path): the file gets the encoded image, or save raises (the
\* destination cannot be written) and the file is left as it was
SaveImage(obj, img, path, format, next) ==
    \/ /\ files' = [files EXCEPT ![path] = Encode(img, format)]
       /\ log' = Append(log, [obj |-> obj, path |-> path])
       /\ pc' = next
    \/ /\ pc' = "fault"
       /\ UNCHANGED <<files, log>>

\* local = fn(logo, arg) (local "": a temporary), then its save
MakeAndSave(here, fn, arg, local, path, format, next) ==
    /\ pc = here
    /\ \E img \in {Transform(fn, logo, arg)} :
          \/ /\ IsFault(img)
             /\ pc' = "fault"
             /\ UNCHANGED <<files, log, derived, locals>>
          \/ /\ ~IsFault(img)
             /\ derived' = Append(derived, [fn |-> fn, arg |-> arg, img |-> img])
             /\ locals' = IF local = "" THEN locals
                          ELSE [locals EXCEPT ![local] = Len(derived) + 1]
             /\ SaveImage(Len(derived) + 1, img, path, format, next)
    /\ UNCHANGED <<source, publicDir, before, run, outcomes, logo>>
    /\ UNCHANGED fnVars

\* local.save(path) of an image made earlier
SaveLocal(here, local, path, format, next) ==
    /\ pc = here
    /\ SaveImage(locals[local], derived[locals[local]].img, path, format, next)
    /\ UNCHANGED <<source, publicDir, before, run, outcomes, logo, derived, locals>>
    /\ UNCHANGED fnVars

\* lines 55-56
MakeSidebar ==
    MakeAndSave("sidebar", "resize_maintaining_aspect", SidebarHeight, "sidebar",
                "public/logo-24.png", "PNG", "login")

\* lines 60-61
MakeLogin ==
    MakeAndSave("login", "resize_maintaining_aspect", LoginHeight, "login",
                "public/logo-80.png", "PNG", "favicons")

\* lines 65-67: the three square images, before any of them is saved
MakeFavicons ==
    /\ pc = "favicons"
    /\ \E made \in {<<ResizeToSquare(logo, Favicon16), ResizeToSquare(logo, Favicon32),
                      ResizeToSquare(logo, AppleTouch)>>} :
          \/ /\ \E k \in 1..3 : IsFault(made[k])
             /\ pc' = "fault"
             /\ UNCHANGED <<derived, locals>>
          \/ /\ \A k \in 1..3 : ~IsFault(made[k])
             /\ derived' = derived \o
                    <<[fn |-> "resize_to_square", arg |-> Favicon16, img |-> made[1]],
                      [fn |-> "resize_to_square", arg |-> Favicon32, img |-> made[2]],
                      [fn |-> "resize_to_square", arg |-> AppleTouch, img |-> made[3]]>>
             /\ locals' = [locals EXCEPT !["favicon_16"] = Len(derived) + 1,
                                         !["favicon_32"] = Len(derived) + 2,
                                         !["apple_touch"] = Len(derived) + 3]
             /\ pc' = "save_16"
    /\ UNCHANGED <<source, publicDir, files, before, run, outcomes, logo, log>>
    /\ UNCHANGED fnVars

\* line 69
SaveFavicon16 ==
    SaveLocal("save_16", "favicon_16", "public/favicon-16.png", "PNG", "save_32")

\* line 70
SaveFavicon32 ==
    SaveLocal("save_32", "favicon_32", "public/favicon-32.png", "PNG", "save_180")

\* line 71
SaveAppleTouch ==
    SaveLocal("save_180", "apple_touch", "public/apple-touch-icon.png", "PNG", "ico")

\* lines 74-75
MakeIco ==
    MakeAndSave("ico", "resize_to_square", Favicon32, "favicon_32_for_ico",
                "public/favicon.ico", "ICO", "app_ico")

\* a slip: the second favicon.ico saved from favicon_32
SaveAppIcoFrom32 ==
    SaveLocal("app_ico", "favicon_32", "src/app/favicon.ico", "ICO", "app_icon")

\* line 79
SaveAppIco ==
    SaveLocal("app_ico", "favicon_32_for_ico", "src/app/favicon.ico", "ICO", "app_icon")

\* a slip: icon.png made at 16 pixels
SaveAppIcon16 ==
    MakeAndSave("app_icon", "resize_to_square", Favicon16, "",
                "src/app/icon.png", "PNG", "app_apple")

\* line 80
SaveAppIcon ==
    MakeAndSave("app_icon", "resize_to_square", Favicon32, "",
                "src/app/icon.png", "PNG", "app_apple")

\* line 81, and the run ends (lines 83-85 only print)
SaveAppApple ==
    MakeAndSave("app_apple", "resize_to_square", AppleTouch, "",
                "src/app/apple-icon.png", "PNG", "done")

\* the script is run again: a new process, the files as the last run left them
Rerun ==
    /\ pc \in {"done", "fault"}
    /\ run < MaxRuns
    /\ run' = run + 1
    /\ outcomes' = Append(outcomes, pc)
    /\ before' = files
    /\ pc' = "load"
    /\ logo' = None
    /\ derived' = <<>>
    /\ locals' = [n \in LocalNames |-> 0]
    /\ log' = <<>>
    /\ UNCHANGED <<source, publicDir, files>>
    /\ UNCHANGED fnVars

Next ==
    \/ Load
    \/ MakeSidebar
    \/ MakeLogin
    \/ MakeFavicons
    \/ SaveFavicon16
    \/ SaveFavicon32
    \/ SaveAppleTouch
    \/ MakeIco
    \/ SaveAppIco
    \/ SaveAppIcon
    \/ SaveAppApple
    \/ Rerun

Spec == Init /\ [][Next]_vars

(***************************************************************************)
(* The transforms on their own: any image, any target.                     *)
(***************************************************************************)
Sizes == (1..MaxSize) \cup MainSizes

FnInit ==
    /\ MainIdle
    /\ fnImg \in {ConvertRGBA(f) : f \in LogoFiles(1..MaxDim)}
    /\ fnName = "idle"
    /\ fnArg = 0
    /\ fnRet = None

Call(fn) ==
    /\ fnName = "idle"
    /\ \E arg \in Sizes :
          /\ fnName' = fn
          /\ fnArg' = arg
          /\ fnRet' = Transform(fn, fnImg, arg)
    /\ UNCHANGED fnImg
    /\ UNCHANGED mainVars

CallAspect == Call("resize_maintaining_aspect")

CallSquare == Call("resize_to_square")

FnNext == CallAspect \/ CallSquare

SpecFn == FnInit /\ [][FnNext]_vars

(***************************************************************************)
(* The claims.                                                             *)
(***************************************************************************)
Max(a, b) == IF a >= b THEN a ELSE b

Abs(a) == IF a >= 0 THEN a ELSE 0 - a

SquareSide == fnArg

\* floor(fnArg * W0 / H0) of the transform call in the state
FloorWidth == (fnArg * fnImg.width) \div fnImg.height

ExactWidth == (fnArg * fnImg.width) % fnImg.height = 0

AspectCalled == fnName = "resize_maintaining_aspect"

SquareCalled == fnName = "resize_to_square"

\* C1 as stated: resize_maintaining_aspect returns, for every source and
\* every positive height H, an image H high and round(H * W0 / H0) wide
\* (to the nearest integer: at most half a pixel from H * W0 / H0).
C1_RoundedWidth ==
    AspectCalled =>
        /\ ~IsFault(fnRet)
        /\ fnRet.height = fnArg
        /\ 2 * Abs(fnRet.width * fnImg.height - fnArg * fnImg.width) <= fnImg.height

\* C1 amended: resize_maintaining_aspect either raises (only when
\* floor(H * W0 / H0) is 0, or is 1 with H0 dividing H * W0) or returns an
\* image exactly H high and at least 1 wide whose width is H * W0 / H0
\* truncated: floor(H * W0 / H0), or one less than that only when H0 divides
\* H * W0 (the double product falling just below the integer).
C1_TruncatedWidth ==
    AspectCalled =>
        IF IsFault(fnRet)
        THEN FloorWidth = 0 \/ (FloorWidth = 1 /\ ExactWidth)
        ELSE /\ fnRet.height = fnArg
             /\ fnRet.width >= 1
             /\ fnRet.width \in {FloorWidth - 1, FloorWidth}
             /\ ~ExactWidth => fnRet.width = FloorWidth

\* C1's case: a width whose fraction is a half or more, cut down not rounded
C1_Witness ==
    /\ AspectCalled
    /\ ~IsFault(fnRet)
    /\ 2 * ((fnArg * fnImg.width) % fnImg.height) >= fnImg.height
    /\ fnRet.width = FloorWidth

\* whether side f is side a of the source scaled by S / b, within a pixel
Proportional(f, a, b) == Abs(f * b - SquareSide * a) <= b

OutsideTransparent(img, x, y, w, h) ==
    \A i \in 0..(img.width - 1), j \in 0..(img.height - 1) :
        (i < x \/ i >= x + w \/ j < y \/ j >= y + h) => PixelAt(img, i, j) = Transparent

\* C2 as stated: resize_to_square returns, for every source and every
\* positive size S, an S x S canvas with the larger source side fitted to S
\* (the width when W0 > H0, else the height), the other side scaled
\* proportionally, the content pasted at floor((S - fitted) / 2) on each
\* axis, every pixel outside it transparent, and a square source filling
\* the canvas.
C2_SquareCanvas ==
    SquareCalled =>
        /\ ~IsFault(fnRet)
        /\ fnRet.width = SquareSide /\ fnRet.height = SquareSide
        /\ LET p == fnRet.px IN
           /\ p.kind = "paste"
           /\ IF fnImg.width > fnImg.height
              THEN p.w = SquareSide /\ Proportional(p.h, fnImg.height, fnImg.width)
              ELSE p.h = SquareSide /\ Proportional(p.w, fnImg.width, fnImg.height)
           /\ p.x = (SquareSide - p.w) \div 2
           /\ p.y = (SquareSide - p.h) \div 2
           /\ OutsideTransparent(fnRet, p.x, p.y, p.w, p.h)
           /\ fnImg.width = fnImg.height =>
                 p.x = 0 /\ p.y = 0 /\ p.w = SquareSide /\ p.h = SquareSide

\* C3 as stated: every derived image main has produced has its larger side
\* at most the target asked for; an aspect-preserving one is exactly as high
\* as asked, a square one is target x target.
C3_LargerSideBounded ==
    \A k \in 1..Len(derived) :
        LET d == derived[k] IN
        /\ Max(d.img.width, d.img.height) <= d.arg
        /\ d.fn = "resize_maintaining_aspect" => d.img.height = d.arg
        /\ d.fn = "resize_to_square" => d.img.width = d.arg /\ d.img.height = d.arg

\* C3 amended: every square image main has produced is target x target (so
\* its larger side is the target) and every aspect-preserving one is exactly
\* as high as asked; the width of an aspect-preserving image is at most the
\* target only when the logo is no wider than high, and for a wider logo it
\* is at least the target.
C3_HeightExact ==
    \A k \in 1..Len(derived) :
        LET d == derived[k] IN
        /\ d.fn = "resize_maintaining_aspect" =>
              /\ d.img.height = d.arg
              /\ logo.width <= logo.height => d.img.width <= d.arg
              /\ logo.width > logo.height => d.img.width >= d.arg
        /\ d.fn = "resize_to_square" => d.img.width = d.arg /\ d.img.height = d.arg

\* C3's case: a finished run on a logo wider than high
C3_Witness ==
    /\ pc = "done"
    /\ Len(derived) = 8
    /\ logo.width > logo.height
    /\ derived[1].img.width > SidebarHeight

\* C4: with logo.png missing the run faults at the load, and none of the
\* nine output files is created, written or changed.
C4_MissingSourceWritesNothing ==
    source = Missing =>
        /\ pc \in {"load", "fault"}
        /\ files = before
        /\ log = <<>>
        /\ derived = <<>>

\* C4's case: the run has faulted on the missing logo.png
C4_Witness == source = Missing /\ pc = "fault" /\ files[OutputOrder[1]] = Stale

IcoPaths == {"public/favicon.ico", "src/app/favicon.ico"}

FormatOf(path) == IF path \in IcoPaths THEN "ICO" ELSE "PNG"

\* C5: the files a run has written are always a prefix of the fixed order
\* (logo-24, logo-80, favicon-16, favicon-32, apple-touch-icon, public
\* favicon.ico, app favicon.ico, icon.png, apple-icon.png); each of them
\* holds what was saved, also after a fault (no rollback), and every later
\* file is as the run found it.
C5_WrittenIsPrefix ==
    /\ Len(log) <= Len(OutputOrder)
    /\ \A k \in 1..Len(OutputOrder) :
          IF k <= Len(log)
          THEN /\ log[k].path = OutputOrder[k]
               /\ files[OutputOrder[k]] =
                     Encode(derived[log[k].obj].img, FormatOf(OutputOrder[k]))
          ELSE files[OutputOrder[k]] = before[OutputOrder[k]]
    /\ pc = "done" => Len(log) = Len(OutputOrder)

\* C5's case: a save faulted with five files written over the stale ones
C5_Witness ==
    /\ pc = "fault"
    /\ Len(log) = 5
    /\ before[OutputOrder[1]] = Stale
    /\ files[OutputOrder[5]] # Stale
    /\ files[OutputOrder[6]] = Stale

\* C6: a batch that completes right after a batch that completed leaves
\* each of the nine files with the content it already had.
C6_SecondRunSameFiles ==
    (pc = "done" /\ outcomes # <<>> /\ outcomes[Len(outcomes)] = "done") =>
        /\ files = before
        /\ \A p \in Paths : files[p] \notin {Absent, Stale}

\* C6's case: the second of two completed runs has ended
C6_Witness ==
    /\ pc = "done"
    /\ run = 2
    /\ outcomes = <<"done">>
    /\ Len(log) = Len(OutputOrder)

\* C7: for a source that is not square the two transparent margins of the
\* square canvas on each axis differ by at most one pixel, the first being
\* floor((S - fitted) / 2).
C7_MarginsBalanced ==
    (SquareCalled /\ ~IsFault(fnRet) /\ fnImg.width # fnImg.height) =>
        LET p == fnRet.px IN
        /\ p.x = (SquareSide - p.w) \div 2
        /\ p.y = (SquareSide - p.h) \div 2
        /\ Abs(p.x - (SquareSide - p.w - p.x)) <= 1
        /\ Abs(p.y - (SquareSide - p.h - p.y)) <= 1

\* C7's case: a padding of odd size, one margin a pixel more than the other
C7_Witness ==
    /\ SquareCalled
    /\ ~IsFault(fnRet)
    /\ fnImg.width # fnImg.height
    /\ fnRet.px.x >= 1
    /\ SquareSide - fnRet.px.w - fnRet.px.x = fnRet.px.x + 1

\* the number of saves of derived image k in this run
Saves(k) == Cardinality({n \in 1..Len(log) : log[n].obj = k})

\* C8 as stated: when a run completes every derived image has been saved
\* exactly once.
C8_SavedExactlyOnce ==
    pc = "done" => \A k \in 1..Len(derived) : Saves(k) = 1

\* C8 amended: when a run completes every derived image has been saved at
\* least once, each save to a path of its own; favicon_32_for_ico has been
\* saved twice (to the two favicon.ico paths) and every other derived image
\* exactly once: eight images, nine files.
C8_SavedOnceButIco ==
    pc = "done" =>
        /\ Len(derived) = 8
        /\ Len(log) = Len(OutputOrder)
        /\ \A k \in 1..Len(derived) :
              Saves(k) = IF k = locals["favicon_32_for_ico"] THEN 2 ELSE 1
        /\ {log[n].path : n \in {m \in 1..Len(log) :
                                    log[m].obj = locals["favicon_32_for_ico"]}}
              = IcoPaths

\* C8's case: a run has completed
C8_Witness == pc = "done" /\ locals["favicon_32_for_ico"] = 6 /\ Saves(6) = 2

\* the image a batch that keeps one square image per size would use: the
\* first one this run made for that size
Memo(size) ==
    derived[CHOOSE k \in 1..Len(derived) :
               /\ derived[k].fn = "resize_to_square" /\ derived[k].arg = size
               /\ \A j \in 1..(k - 1) :
                     ~(derived[j].fn = "resize_to_square" /\ derived[j].arg = size)].img

\* C9: every square image main saves is the image first made for its size,
\* so a batch that makes each size once writes the same files in the same
\* order; a completed run leaves favicon-32.png and icon.png the same, and
\* apple-touch-icon.png and apple-icon.png, and the two favicon.ico.
C9_MemoisedBatchEquivalent ==
    /\ \A n \in 1..Len(log) :
          LET d == derived[log[n].obj] IN
          d.fn = "resize_to_square" =>
              files[log[n].path] = Encode(Memo(d.arg), FormatOf(log[n].path))
    /\ pc = "done" =>
          /\ files["public/favicon-32.png"] = files["src/app/icon.png"]
          /\ files["public/apple-touch-icon.png"] = files["src/app/apple-icon.png"]
          /\ files["public/favicon.ico"] = files["src/app/favicon.ico"]
          /\ files["public/favicon.ico"] = Encode(Memo(Favicon32), "ICO")

\* C9's case: a completed run on a logo that is not square
C9_Witness ==
    /\ pc = "done"
    /\ logo.width # logo.height
    /\ derived[7].img = derived[4].img
    /\ files["src/app/icon.png"].format = "PNG"

\* C10: the fitted size of resize_to_square is within 0..S on both axes and
\* is S on one of them, so the paste offsets are not negative and the
\* pasted content lies inside the S x S canvas.
C10_ContentInsideCanvas ==
    SquareCalled =>
        LET fit == FittedSize(fnImg, fnArg)
            at  == PasteOffset(fnArg, fit[1], fit[2])
        IN  /\ 0 <= fit[1] /\ fit[1] <= SquareSide
            /\ 0 <= fit[2] /\ fit[2] <= SquareSide
            /\ fit[1] = SquareSide \/ fit[2] = SquareSide
            /\ at[1] >= 0 /\ at[2] >= 0
            /\ at[1] + fit[1] <= SquareSide
            /\ at[2] + fit[2] <= SquareSide
            /\ ~IsFault(fnRet) =>
                  /\ fnRet.px.x = at[1] /\ fnRet.px.y = at[2]
                  /\ fnRet.px.w = fit[1] /\ fnRet.px.h = fit[2]
                  /\ fnRet.width = SquareSide /\ fnRet.height = SquareSide

\* C10's case: a padded canvas, the content narrower than the canvas
C10_Witness ==
    /\ SquareCalled
    /\ ~IsFault(fnRet)
    /\ fnRet.px.w < SquareSide
    /\ fnRet.px.x >= 1
    /\ fnRet.px.x + fnRet.px.w < SquareSide
=============================================================================
